---- MODULE Spec2Model ----
(***************************************************************************)
(* speyrot/stonkman: three PyQt trading tools.                             *)
(*   day_trade.py        entry/exit signals, the single-position trade     *)
(*                       simulator (execute_trades) and its summary        *)
(*   frvp_strat.py       the fixed-range volume profile analysis (analyze) *)
(*   market_analyzer.py  volume/market profile by exact close price        *)
(*                                                                         *)
(* Specifications:                                                         *)
(*   Spec        day_trade.py, TradingApp.execute_strategy run repeatedly  *)
(*   SpecTrades  day_trade.py, execute_trades applied to any frames,       *)
(*               the empty ones included                                   *)
(*   SpecSignals day_trade.py, find_entry_points / find_exit_points on     *)
(*               MACD and MACD_signal columns                              *)
(*   SpecFrvp    frvp_strat.py, TradingApp.analyze run repeatedly          *)
(*   SpecRsi     frvp_strat.py, calculate_rsi applied to any closes        *)
(*   SpecCross   frvp_strat.py, the MACD lines of show_results             *)
(*   SpecFlags   day_trade.py, execute_trades on every row of entry flags  *)
(*   SpecProfile frvp_strat.py, calculate_volume_profile on drawn series   *)
(*   SpecMarket  market_analyzer.py, the fetch and plot buttons            *)
(***************************************************************************)
EXTENDS Integers, Sequences, FiniteSets

VARIABLES
    \* ---- day_trade.py ----
    pc,             \* position of the day_trade code
    data,           \* data.index: the bars' timestamps, in order
    entry_points,   \* frame of five boolean columns, one row per bar
    exit_points,    \* frame of five boolean columns, one row per bar
    trades,         \* the 'action' column, one cell per bar
    in_trade,       \* local of execute_trades
    index,          \* bar the loop of execute_trades is at
    buy_signals,    \* display_results: index of the rows counted as buys
    sell_signals,   \* display_results: index of the rows counted as sells
    result_text,    \* what the result widget shows
    \* ---- day_trade.py, signal detection ----
    spc,            \* position of the signal code
    MACD,           \* data['MACD'], one optional number per bar
    MACD_signal,    \* data['MACD_signal'], one optional number per bar
    entry_MACD_cross, \* entry_points['MACD_cross']
    exit_MACD_cross,  \* exit_points['MACD_cross']
    \* ---- frvp_strat.py ----
    fpc,            \* position of analyze
    interval_selected,
    historical_data,\* rows of Close/High/Low/Volume
    downloads,      \* yf.download calls made by the current analyze run
    rolling_window, \* local of analyze
    windows,        \* bar counts calculate_technical_indicators works with
    profile,        \* (poc, vah, val) as returned by calculate_volume_profile
    fresult,        \* what the result widget of frvp_strat shows
    \* ---- frvp_strat.py, calculate_rsi ----
    rpc,            \* position of calculate_rsi
    rsi_interval,   \* its interval argument
    close_col,      \* data['Close']
    RSI,            \* data['RSI']
    \* ---- frvp_strat.py, show_results ----
    cpc,            \* position of show_results
    macd_check,     \* the "Display MACD" box is checked
    macd_col,       \* data['MACD']
    signal_col,     \* data['Signal Line']
    macd_analysis,  \* local of show_results
    \* ---- market_analyzer.py ----
    g_data,           \* global data: None or the fetched frame
    g_volume_profile, \* global volume_profile: absent, or a volume per close
    g_market_profile, \* global market_profile: absent, or a count per close
    canvas,           \* the figure on the canvas: title and plotted series
    drawn,            \* what the handler that ran last drew, if anything
    m_result,         \* what result_text of market_analyzer shows
    \* ---- frvp_strat.py, calculate_volume_profile called on its own ----
    vpc,              \* "call" before the call, "done" after it, "idle"
    vp_data,          \* its argument data
    vp_result         \* the triple (poc, vah, val) it returned

tvars == <<pc, data, entry_points, exit_points, trades, in_trade, index,
           buy_signals, sell_signals, result_text>>
svars == <<spc, MACD, MACD_signal, entry_MACD_cross, exit_MACD_cross>>
fvars == <<fpc, interval_selected, historical_data, downloads, rolling_window,
           windows, profile, fresult>>
rvars == <<rpc, rsi_interval, close_col, RSI>>
cvars == <<cpc, macd_check, macd_col, signal_col, macd_analysis>>
mvars == <<g_data, g_volume_profile, g_market_profile, canvas, drawn, m_result>>
vvars == <<vpc, vp_data, vp_result>>
xvars == <<rvars, cvars, mvars, vvars>>
vars  == <<tvars, svars, fvars, xvars>>

\* ------------------------------------------------------------------ bounds
\* longest bar series handed to the trade simulator
MaxBars == 3

\* ------------------------------------------------------- optional numbers
\* A pandas cell that may be NaN, or a Python value that may be None, is a
\* set with at most one element: comparisons with NaN are then false, as in
\* numpy.
NaN == {}
None == {}
Num(v) == {v}
gt(a, b) == \E x \in a, y \in b : x > y
lt(a, b) == \E x \in a, y \in b : x < y
le(a, b) == \E x \in a, y \in b : x <= y

Max(a, b) == IF a >= b THEN a ELSE b

\* =================================================== day_trade.py: trades
\* the five rule columns, in the order of the frames' columns
Rules == <<"MACD_cross", "RSI", "BB", "OBV", "ADX">>
RuleSet == {Rules[i] : i \in 1..Len(Rules)}
Row(S) == [r \in RuleSet |-> r \in S]

\* Rows the frames are drawn from.  Entry rows: no rule, one rule alone, or a
\* rule together with every rule after it in column order.  Exit rows: no
\* rule, or a single rule away from the first column.
EntryRows ==
    {Row({})} \cup {Row({Rules[k]}) : k \in 1..Len(Rules)}
              \cup {Row({Rules[j] : j \in k..Len(Rules)}) : k \in 1..Len(Rules)}
ExitRows == {Row({}), Row({"OBV"})}

\* the cell of a frame created with columns only
NoAction == "NaN"

\* pandas Series.any() over a row of booleans
any(row) == \E r \in RuleSet : row[r]

\* the if/elif chain that labels a buy
buy_label_no_priority(e) ==
    IF e["ADX"] THEN "buy (ADX)"
    ELSE IF e["OBV"] THEN "buy (OBV)"
    ELSE IF e["BB"] THEN "buy (Bollinger Bands)"
    ELSE IF e["RSI"] THEN "buy (RSI)"
    ELSE IF e["MACD_cross"] THEN "buy (MACD cross)"
    ELSE "wait"
buy_label_without_adx(e) ==
    IF e["MACD_cross"] THEN "buy (MACD cross)"
    ELSE IF e["RSI"] THEN "buy (RSI)"
    ELSE IF e["BB"] THEN "buy (Bollinger Bands)"
    ELSE IF e["OBV"] THEN "buy (OBV)"
    ELSE "wait"
buy_label(e) ==
    IF e["MACD_cross"] THEN "buy (MACD cross)"
    ELSE IF e["RSI"] THEN "buy (RSI)"
    ELSE IF e["BB"] THEN "buy (Bollinger Bands)"
    ELSE IF e["OBV"] THEN "buy (OBV)"
    ELSE IF e["ADX"] THEN "buy (ADX)"
    ELSE "wait"

\* the cell written for one bar
bar_action_exit_first_column(in, e, x) ==
    IF in
    THEN IF x["MACD_cross"] THEN "sell" ELSE "hold"
    ELSE IF any(e) THEN buy_label(e) ELSE "hold"
bar_action(in, e, x) ==
    IF in
    THEN IF any(x) THEN "sell" ELSE "hold"
    ELSE IF any(e) THEN buy_label(e) ELSE "hold"

\* in_trade after one bar
bar_in_trade_never_set(in, e, x) ==
    IF in THEN ~any(x) ELSE FALSE
bar_in_trade(in, e, x) ==
    IF in
    THEN ~any(x)
    ELSE any(e)

\* iterrows() still has a row to give
has_row_skips_last(i, d) == i < Len(d)
has_row(i, d) == i <= Len(d)

Frames(n, rows) == [1..n -> rows]
Timestamps(n) == [i \in 1..n |-> i]

TradeIdle ==
    /\ pc = "idle"
    /\ data = <<>>
    /\ entry_points = <<>>
    /\ exit_points = <<>>
    /\ trades = <<>>
    /\ in_trade = FALSE
    /\ index = 1
    /\ buy_signals = <<>>
    /\ sell_signals = <<>>
    /\ result_text = ""

\* execute_trades up to the loop: the frame of empty cells, in_trade = False
execute_trades_enter(n) ==
    /\ data' = Timestamps(n)
    /\ \E e \in Frames(n, EntryRows), x \in Frames(n, ExitRows) :
          /\ entry_points' = e
          /\ exit_points' = x
    /\ trades' = [i \in 1..n |-> NoAction]
    /\ in_trade' = FALSE
    /\ index' = 1
    /\ pc' = "execute_trades"

\* execute_strategy on a fetch that returned no bar
execute_strategy_empty ==
    /\ pc = "idle"
    /\ result_text' = "No data found for the given stock symbol."
    /\ UNCHANGED <<pc, data, entry_points, exit_points, trades, in_trade,
                   index, buy_signals, sell_signals>>
    /\ UNCHANGED <<svars, fvars, xvars>>

\* execute_strategy on fetched bars: indicators, entry and exit frames, then
\* the call of execute_trades
execute_strategy ==
    /\ pc = "idle"
    /\ \E n \in 1..MaxBars : execute_trades_enter(n)
    /\ UNCHANGED <<buy_signals, sell_signals, result_text>>
    /\ UNCHANGED <<svars, fvars, xvars>>

\* one iteration of the loop over data.iterrows()
execute_trades_step ==
    /\ pc = "execute_trades"
    /\ has_row(index, data)
    /\ LET e == entry_points[index]
           x == exit_points[index]
       IN /\ trades' = [trades EXCEPT ![index] = bar_action(in_trade, e, x)]
          /\ in_trade' = bar_in_trade(in_trade, e, x)
    /\ index' = index + 1
    /\ UNCHANGED <<pc, data, entry_points, exit_points, buy_signals,
                   sell_signals, result_text>>
    /\ UNCHANGED <<svars, fvars, xvars>>

\* the loop is exhausted: return trades
execute_trades_return ==
    /\ pc = "execute_trades"
    /\ ~has_row(index, data)
    /\ pc' = "display_results"
    /\ UNCHANGED <<data, entry_points, exit_points, trades, in_trade, index,
                   buy_signals, sell_signals, result_text>>
    /\ UNCHANGED <<svars, fvars, xvars>>

\* trades[trades['action'] == label].index
rows_equal(t, label) == SelectSeq([i \in 1..Len(t) |-> i], LAMBDA i : t[i] = label)

display_results ==
    /\ pc = "display_results"
    /\ buy_signals' = rows_equal(trades, "buy")
    /\ sell_signals' = rows_equal(trades, "sell")
    /\ result_text' = "Number of Buy Signals / Number of Sell Signals"
    /\ pc' = "plot_data"
    /\ UNCHANGED <<data, entry_points, exit_points, trades, in_trade, index>>
    /\ UNCHANGED <<svars, fvars, xvars>>

\* plot_data draws, and execute_strategy returns: its locals are gone, the
\* result widget keeps its text
plot_data ==
    /\ pc = "plot_data"
    /\ pc' = "idle"
    /\ data' = <<>>
    /\ entry_points' = <<>>
    /\ exit_points' = <<>>
    /\ trades' = <<>>
    /\ in_trade' = FALSE
    /\ index' = 1
    /\ buy_signals' = <<>>
    /\ sell_signals' = <<>>
    /\ UNCHANGED result_text
    /\ UNCHANGED <<svars, fvars, xvars>>


InitTrades ==
    /\ pc = "execute_trades"
    /\ \E n \in 0..MaxBars :
          /\ data = Timestamps(n)
          /\ entry_points \in Frames(n, EntryRows)
          /\ exit_points \in Frames(n, ExitRows)
          /\ trades = [i \in 1..n |-> NoAction]
    /\ in_trade = FALSE
    /\ index = 1
    /\ buy_signals = <<>>
    /\ sell_signals = <<>>
    /\ result_text = ""

\* execute_trades entered with frames whose entry rows are any combination of
\* the five flags
MaxFlagBars == 2
AllRows == [RuleSet -> BOOLEAN]
InitFlags ==
    /\ pc = "execute_trades"
    /\ \E n \in 0..MaxFlagBars :
          /\ data = Timestamps(n)
          /\ entry_points \in Frames(n, AllRows)
          /\ exit_points \in Frames(n, ExitRows)
          /\ trades = [i \in 1..n |-> NoAction]
    /\ in_trade = FALSE
    /\ index = 1
    /\ buy_signals = <<>>
    /\ sell_signals = <<>>
    /\ result_text = ""

\* ================================================ day_trade.py: signals
\* largest indicator value drawn
MaxVal == 1

Vals == {NaN} \cup {Num(v) : v \in 0..MaxVal}
Columns(n) == [1..n -> Vals]

\* pandas Series.shift(1)
shift(col) == [i \in 1..Len(col) |-> IF i = 1 THEN NaN ELSE col[i - 1]]

\* entry_points['MACD_cross']
entry_cross_no_previous(m, s) ==
    [i \in 1..Len(m) |-> gt(m[i], s[i])]
entry_cross(m, s) ==
    [i \in 1..Len(m) |-> gt(m[i], s[i]) /\ lt(shift(m)[i], shift(s)[i])]

\* exit_points['MACD_cross']
exit_cross(m, s) ==
    [i \in 1..Len(m) |-> lt(m[i], s[i]) /\ gt(shift(m)[i], shift(s)[i])]

SignalsIdle ==
    /\ spc = "idle"
    /\ MACD = <<>>
    /\ MACD_signal = <<>>
    /\ entry_MACD_cross = <<>>
    /\ exit_MACD_cross = <<>>

InitSignals ==
    /\ spc = "find_entry_points"
    /\ \E n \in 0..MaxBars :
          /\ MACD \in Columns(n)
          /\ MACD_signal \in Columns(n)
    /\ entry_MACD_cross = <<>>
    /\ exit_MACD_cross = <<>>

find_entry_points ==
    /\ spc = "find_entry_points"
    /\ entry_MACD_cross' = entry_cross(MACD, MACD_signal)
    /\ spc' = "find_exit_points"
    /\ UNCHANGED <<MACD, MACD_signal, exit_MACD_cross>>
    /\ UNCHANGED <<tvars, fvars, xvars>>

find_exit_points ==
    /\ spc = "find_exit_points"
    /\ exit_MACD_cross' = exit_cross(MACD, MACD_signal)
    /\ spc' = "done"
    /\ UNCHANGED <<MACD, MACD_signal, entry_MACD_cross>>
    /\ UNCHANGED <<tvars, fvars, xvars>>

\* ========================================================= frvp_strat.py
\* longest series a download returns
MaxRows == 3
\* largest volume of a bar
MaxVolume == 2

\* the items of interval_combo, and an interval yfinance serves that no
\* mapping of the program holds
ComboIntervals == {"1m", "2m", "5m", "30m", "1h", "1d", "1wk"}
OtherIntervals == {"15m"}

\* analyze: interval_to_minutes
interval_to_minutes ==
    [i \in ComboIntervals |->
        CASE i = "1m" -> 1 [] i = "2m" -> 2 [] i = "5m" -> 5 [] i = "30m" -> 30
          [] i = "1h" -> 60 [] i = "1d" -> 1440 [] i = "1wk" -> 10080]
minutes_per_day == 1440

\* intervals_per_period: interval_duration_minutes
interval_duration_minutes ==
    [i \in ComboIntervals |->
        CASE i = "1m" -> 1 [] i = "2m" -> 2 [] i = "5m" -> 5 [] i = "30m" -> 30
          [] i = "1h" -> 60 [] i = "1d" -> 1440 [] i = "1wk" -> 10080]

intervals_per_period(interval, period_days) ==
    (period_days * 1440) \div interval_duration_minutes[interval]

\* int(minutes_per_day / interval_to_minutes[interval_selected])
rolling_window_of(interval) == minutes_per_day \div interval_to_minutes[interval]

\* the windows of calculate_technical_indicators
technical_windows(interval) ==
    [ma50   |-> intervals_per_period(interval, 50),
     ma200  |-> intervals_per_period(interval, 200),
     ma20   |-> intervals_per_period(interval, 20),
     ema12  |-> intervals_per_period(interval, 12),
     ema26  |-> intervals_per_period(interval, 26),
     signal |-> intervals_per_period(interval, 9)]

\* bars: Low <= Close <= High, Volume a number or NaN
Volumes == {NaN} \cup {Num(v) : v \in 0..MaxVolume}
Bars == [Close : {1, 2}, High : {2}, Low : {1}, Volume : Volumes]
Series(n) == [1..n -> Bars]

\* Series.idxmax(): the first row holding the largest value, NaN skipped
has_volume(d) == {i \in 1..Len(d) : d[i].Volume # NaN}
vol(d, i) == CHOOSE v \in d[i].Volume : TRUE
idxmax_last(d) ==
    CHOOSE i \in has_volume(d) :
        \A j \in has_volume(d) :
            vol(d, j) < vol(d, i) \/ (vol(d, j) = vol(d, i) /\ j <= i)
idxmax(d) ==
    CHOOSE i \in has_volume(d) :
        \A j \in has_volume(d) :
            vol(d, j) < vol(d, i) \/ (vol(d, j) = vol(d, i) /\ i <= j)

\* Series.nlargest(n): the rows of the n largest values, earlier rows first
\* among equals, NaN dropped
nlargest(d, n) ==
    {i \in has_volume(d) :
        Cardinality({j \in has_volume(d) :
            vol(d, j) > vol(d, i) \/ (vol(d, j) = vol(d, i) /\ j < i)}) < n}

SetMax(S) == CHOOSE x \in S : \A y \in S : y <= x
SetMin(S) == CHOOSE x \in S : \A y \in S : x <= y

top_n == 10

calculate_volume_profile(d) ==
    IF d = <<>>
    THEN <<None, None, None>>
    ELSE IF has_volume(d) # {}
    THEN LET volume_max_idx == idxmax(d)
             poc == Num(d[volume_max_idx].Close)
             top_volumes == nlargest(d, top_n)
         IN IF top_volumes # {}
            THEN <<poc, Num(SetMax({d[i].High : i \in top_volumes})),
                        Num(SetMin({d[i].Low : i \in top_volumes}))>>
            ELSE <<poc, None, None>>
    ELSE <<None, None, None>>

\* market_analyzer.py: data.groupby('close')['volume'].sum(), a sum per
\* distinct close price (NaN counts as nothing)
RECURSIVE volume_at(_, _, _)
volume_at(d, c, i) ==
    IF i = 0 THEN 0
    ELSE volume_at(d, c, i - 1)
         + (IF d[i].Close = c /\ d[i].Volume # NaN THEN vol(d, i) ELSE 0)
volume_profile(d) ==
    [c \in {d[i].Close : i \in 1..Len(d)} |-> volume_at(d, c, Len(d))]

FrvpIdle ==
    /\ fpc = "idle"
    /\ interval_selected = ""
    /\ historical_data = <<>>
    /\ downloads = 0
    /\ rolling_window = None
    /\ windows = None
    /\ profile = <<>>
    /\ fresult = ""

\* analyze(ticker, range_selected, interval_selected) is entered
analyze ==
    /\ fpc = "idle"
    /\ interval_selected' \in ComboIntervals \cup OtherIntervals
    /\ fpc' = "download_1"
    /\ UNCHANGED <<historical_data, downloads, rolling_window, windows,
                   profile, fresult>>
    /\ UNCHANGED <<tvars, svars, xvars>>

\* analyze returns: its locals are gone, the result widget keeps its text
analyze_return ==
    /\ fpc = "return"
    /\ fpc' = "idle"
    /\ interval_selected' = ""
    /\ historical_data' = <<>>
    /\ downloads' = 0
    /\ rolling_window' = None
    /\ windows' = None
    /\ profile' = <<>>
    /\ UNCHANGED fresult
    /\ UNCHANGED <<tvars, svars, xvars>>

after_download(p) == IF p = "download_1" THEN "download_2" ELSE "rolling_window"

\* yf.download raises
download_raises ==
    /\ fpc \in {"download_1", "download_2"}
    /\ downloads' = downloads + 1
    /\ fresult' = "Failed to fetch data"
    /\ fpc' = "return"
    /\ UNCHANGED <<interval_selected, historical_data, rolling_window, windows,
                   profile>>
    /\ UNCHANGED <<tvars, svars, xvars>>

\* yf.download returns an empty frame
download_empty ==
    /\ fpc \in {"download_1", "download_2"}
    /\ downloads' = downloads + 1
    /\ historical_data' = <<>>
    /\ fresult' = "No data found for the given range and interval."
    /\ fpc' = "return"
    /\ UNCHANGED <<interval_selected, rolling_window, windows, profile>>
    /\ UNCHANGED <<tvars, svars, xvars>>

\* yf.download returns bars
download_bars ==
    /\ fpc \in {"download_1", "download_2"}
    /\ downloads' = downloads + 1
    /\ \E n \in 1..MaxRows : historical_data' \in Series(n)
    /\ fpc' = after_download(fpc)
    /\ UNCHANGED <<interval_selected, rolling_window, windows, profile, fresult>>
    /\ UNCHANGED <<tvars, svars, xvars>>

\* the rolling window, for an interval of the mapping
set_rolling_window ==
    /\ fpc = "rolling_window"
    /\ interval_selected \in DOMAIN interval_to_minutes
    /\ rolling_window' = Num(rolling_window_of(interval_selected))
    /\ fpc' = "volume_profile"
    /\ UNCHANGED <<interval_selected, historical_data, downloads, windows,
                   profile, fresult>>
    /\ UNCHANGED <<tvars, svars, xvars>>

\* any other interval
invalid_interval ==
    /\ fpc = "rolling_window"
    /\ interval_selected \notin DOMAIN interval_to_minutes
    /\ fresult' = "Invalid interval selected."
    /\ fpc' = "return"
    /\ UNCHANGED <<interval_selected, historical_data, downloads,
                   rolling_window, windows, profile>>
    /\ UNCHANGED <<tvars, svars, xvars>>

\* poc, vah, val = self.calculate_volume_profile(historical_data)
volume_profile_step ==
    /\ fpc = "volume_profile"
    /\ profile' = calculate_volume_profile(historical_data)
    /\ IF \E k \in 1..3 : profile'[k] = None
       THEN /\ fresult' = "Failed to calculate volume profile."
            /\ fpc' = "return"
       ELSE /\ fpc' = "technical_indicators"
            /\ UNCHANGED fresult
    /\ UNCHANGED <<interval_selected, historical_data, downloads,
                   rolling_window, windows>>
    /\ UNCHANGED <<tvars, svars, xvars>>

\* calculate_technical_indicators, then show_results
show_results ==
    /\ fpc = "technical_indicators"
    /\ windows' = Num(technical_windows(interval_selected))
    /\ fresult' = "Point of Control / Value Area High / Value Area Low"
    /\ fpc' = "return"
    /\ UNCHANGED <<interval_selected, historical_data, downloads,
                   rolling_window, profile>>
    /\ UNCHANGED <<tvars, svars, xvars>>

\* ========================================== frvp_strat.py: calculate_rsi
\* longest column of closes, and the largest close
MaxCloses == 4
MaxClose == 3

\* A float is NaN or one fraction num/den; den = 0 stands for +inf.
Frac(n, d) == {[num |-> n, den |-> d]}
Inf == Frac(1, 0)
IsInf(x) == \E f \in x : f.den = 0
IsZero(x) == \E f \in x : f.den # 0 /\ f.num = 0

\* Series.diff(1)
diff(col) ==
    [i \in 1..Len(col) |-> IF i = 1 THEN NaN ELSE Num(col[i] - col[i - 1])]

\* delta.where(delta > 0, 0) and -delta.where(delta < 0, 0)
gain_cells(delta) ==
    [i \in 1..Len(delta) |->
        IF gt(delta[i], Num(0)) THEN CHOOSE v \in delta[i] : TRUE ELSE 0]
loss_cells(delta) ==
    [i \in 1..Len(delta) |->
        -(IF lt(delta[i], Num(0)) THEN CHOOSE v \in delta[i] : TRUE ELSE 0)]

RECURSIVE window_sum(_, _, _)
window_sum(cells, from, to) ==
    IF from > to THEN 0 ELSE cells[from] + window_sum(cells, from + 1, to)

\* Series.rolling(window=period).mean(): NaN until the window is full
rolling_mean(cells, period) ==
    [i \in 1..Len(cells) |->
        IF i < period
        THEN NaN
        ELSE Frac(window_sum(cells, i - period + 1, i), period)]

\* float division of two non-negative means: x/0 is inf, 0/0 is NaN
divide(a, b) ==
    IF a = NaN \/ b = NaN THEN NaN
    ELSE LET x == CHOOSE f \in a : TRUE
             y == CHOOSE f \in b : TRUE
         IN IF y.num = 0
            THEN IF x.num = 0 THEN NaN ELSE Inf
            ELSE Frac(x.num * y.den, x.den * y.num)

\* 1 + rs
one_plus(x) ==
    IF x = NaN THEN NaN
    ELSE IF IsInf(x) THEN Inf
    ELSE LET f == CHOOSE f \in x : TRUE IN Frac(f.den + f.num, f.den)
\* 100 / x, for x >= 1 or inf
hundred_over(x) ==
    IF x = NaN THEN NaN
    ELSE IF IsInf(x) THEN Frac(0, 1)
    ELSE LET f == CHOOSE f \in x : TRUE IN Frac(100 * f.den, f.num)
\* 100 - x
hundred_minus(x) ==
    IF x = NaN THEN NaN
    ELSE LET f == CHOOSE f \in x : TRUE IN Frac(100 * f.den - f.num, f.den)

\* Series.fillna(v)
fillna_keeps_nan(col, v) == col
fillna(col, v) == [i \in 1..Len(col) |-> IF col[i] = NaN THEN Frac(v, 1) ELSE col[i]]

rsi_period(interval) == intervals_per_period(interval, 14)
avg_gain(col, interval) == rolling_mean(gain_cells(diff(col)), rsi_period(interval))
avg_loss(col, interval) == rolling_mean(loss_cells(diff(col)), rsi_period(interval))

\* data['RSI'] of calculate_rsi
rsi_column(col, interval) ==
    LET gain == avg_gain(col, interval)
        loss == avg_loss(col, interval)
        rs == [i \in 1..Len(col) |-> divide(gain[i], loss[i])]
        rsi == [i \in 1..Len(col) |-> hundred_minus(hundred_over(one_plus(rs[i])))]
    IN fillna(rsi, 50)

RsiIdle ==
    /\ rpc = "idle"
    /\ rsi_interval = ""
    /\ close_col = <<>>
    /\ RSI = <<>>

InitRsi ==
    /\ rpc = "calculate_rsi"
    /\ rsi_interval \in ComboIntervals
    /\ \E n \in 0..MaxCloses : close_col \in [1..n -> 1..MaxClose]
    /\ RSI = <<>>

calculate_rsi ==
    /\ rpc = "calculate_rsi"
    /\ RSI' = rsi_column(close_col, rsi_interval)
    /\ rpc' = "done"
    /\ UNCHANGED <<rsi_interval, close_col>>
    /\ UNCHANGED <<tvars, svars, fvars, cvars, mvars, vvars>>

\* =========================================== frvp_strat.py: show_results
Bullish == "Bullish signal: MACD crossed above the signal line."
Bearish == "Bearish signal: MACD crossed below the signal line."
NoCrossover == "No crossover: The MACD and signal line have not crossed."
Insufficient == "Insufficient data to analyze MACD crossover."

\* the classification of the last two rows
macd_analysis_strict_previous(m, sg) ==
    LET n == Len(m) IN
    IF n >= 2
    THEN IF m[n] > sg[n] /\ m[n - 1] < sg[n - 1] THEN Bullish
         ELSE IF m[n] < sg[n] /\ m[n - 1] > sg[n - 1] THEN Bearish
         ELSE NoCrossover
    ELSE Insufficient
macd_analysis_of(m, sg) ==
    LET n == Len(m) IN
    IF n >= 2
    THEN IF m[n] > sg[n] /\ m[n - 1] <= sg[n - 1] THEN Bullish
         ELSE IF m[n] < sg[n] /\ m[n - 1] >= sg[n - 1] THEN Bearish
         ELSE NoCrossover
    ELSE Insufficient

\* the exponential means have no run-in: every row holds a number
EmaColumns(n) == [1..n -> 0..MaxVal]

CrossIdle ==
    /\ cpc = "idle"
    /\ macd_check = FALSE
    /\ macd_col = <<>>
    /\ signal_col = <<>>
    /\ macd_analysis = ""

\* show_results is called by analyze on a series of at least one bar
InitCross ==
    /\ cpc = "show_results"
    /\ macd_check \in BOOLEAN
    /\ \E n \in 1..MaxBars :
          /\ macd_col \in EmaColumns(n)
          /\ signal_col \in EmaColumns(n)
    /\ macd_analysis = ""

show_results_macd ==
    /\ cpc = "show_results"
    /\ macd_analysis' = IF macd_check
                        THEN macd_analysis_of(macd_col, signal_col)
                        ELSE macd_analysis
    /\ cpc' = "done"
    /\ UNCHANGED <<macd_check, macd_col, signal_col>>
    /\ UNCHANGED <<tvars, svars, fvars, rvars, mvars, vvars>>

\* ===================================================== market_analyzer.py
\* longest frame fetch_data returns
MaxFetched == 2

\* rows of a fetched frame: a close and a traded volume
MarketBars == {b \in Bars : b.Volume # NaN /\ b.Volume # Num(0)}
MarketFrames == UNION {[1..n -> MarketBars] : n \in 1..MaxFetched}

\* calculate_market_profile: value_counts() of the closes, by close
market_profile(d) ==
    [c \in {d[i].Close : i \in 1..Len(d)} |->
        Cardinality({i \in 1..Len(d) : d[i].Close = c})]

\* a name that is not in globals()
Absent == {}

MarketIdle ==
    /\ g_data = Absent
    /\ g_volume_profile = Absent
    /\ g_market_profile = Absent
    /\ canvas = <<>>
    /\ drawn = {}
    /\ m_result = ""

\* on_fetch_data, fetch_data returning a frame
on_fetch_data ==
    /\ \E d \in MarketFrames :
          /\ g_data' = {d}
          /\ g_volume_profile' = {volume_profile(d)}
          /\ g_market_profile' = {market_profile(d)}
    /\ m_result' = "interpretation"
    /\ drawn' = {}
    /\ UNCHANGED canvas
    /\ UNCHANGED <<tvars, svars, fvars, rvars, cvars, vvars>>

\* on_fetch_data, fetch_data returning None
on_fetch_data_failed ==
    /\ g_data' = None
    /\ m_result' = "Failed to fetch data. Check the symbol and try again."
    /\ drawn' = {}
    /\ UNCHANGED <<g_volume_profile, g_market_profile, canvas>>
    /\ UNCHANGED <<tvars, svars, fvars, rvars, cvars, vvars>>

plot_of(title, global) == {<<title, p>> : p \in global}

on_plot_volume ==
    /\ drawn' = plot_of("Volume Profile", g_volume_profile)
    /\ canvas' = IF g_volume_profile # Absent
                 THEN <<"Volume Profile", CHOOSE p \in g_volume_profile : TRUE>>
                 ELSE canvas
    /\ UNCHANGED <<g_data, g_volume_profile, g_market_profile, m_result>>
    /\ UNCHANGED <<tvars, svars, fvars, rvars, cvars, vvars>>

on_plot_market ==
    /\ drawn' = plot_of("Market Profile", g_market_profile)
    /\ canvas' = IF g_market_profile # Absent
                 THEN <<"Market Profile", CHOOSE p \in g_market_profile : TRUE>>
                 ELSE canvas
    /\ UNCHANGED <<g_data, g_volume_profile, g_market_profile, m_result>>
    /\ UNCHANGED <<tvars, svars, fvars, rvars, cvars, vvars>>

\* ------------------------------- calculate_volume_profile called on its own
\* longest series drawn from every kind of bar
MaxProfileRows == 2
\* longest series drawn at all: one bar more than nlargest keeps
LongRows == top_n + 1

\* bars of every shape, ordered low <= close <= high or not, volume or none
ProfileBars ==
    [Close : {1, 2}, High : {1, 2}, Low : {1, 2}, Volume : {NaN, Num(1), Num(2)}]
\* three bars for the long series: a cheap and a dear bar of the same volume
\* and a bar of larger volume
LongBars ==
    { [Close |-> 1, High |-> 1, Low |-> 1, Volume |-> Num(1)],
      [Close |-> 2, High |-> 2, Low |-> 2, Volume |-> Num(1)],
      [Close |-> 2, High |-> 2, Low |-> 1, Volume |-> Num(2)] }
ProfileSeries ==
    UNION {[1..n -> ProfileBars] : n \in 0..MaxProfileRows}
        \cup UNION {[1..n -> LongBars] : n \in top_n..LongRows}

ProfileIdle ==
    /\ vpc = "idle"
    /\ vp_data = <<>>
    /\ vp_result = <<>>

InitProfile ==
    /\ vpc = "call"
    /\ vp_data \in ProfileSeries
    /\ vp_result = <<>>

calculate_volume_profile_return ==
    /\ vpc = "call"
    /\ vp_result' = calculate_volume_profile(vp_data)
    /\ vpc' = "done"
    /\ UNCHANGED vp_data
    /\ UNCHANGED <<tvars, svars, fvars, rvars, cvars, mvars>>

OthersIdle == RsiIdle /\ CrossIdle /\ MarketIdle /\ ProfileIdle

\* ======================================================== specifications
Init == TradeIdle /\ SignalsIdle /\ FrvpIdle /\ OthersIdle
Next ==
    \/ execute_strategy_empty
    \/ execute_strategy
    \/ execute_trades_step
    \/ execute_trades_return
    \/ display_results
    \/ plot_data
Spec == Init /\ [][Next]_vars

InitT == InitTrades /\ SignalsIdle /\ FrvpIdle /\ OthersIdle
NextT ==
    \/ execute_trades_step
    \/ execute_trades_return
SpecTrades == InitT /\ [][NextT]_vars

InitG == InitFlags /\ SignalsIdle /\ FrvpIdle /\ OthersIdle
NextG ==
    \/ execute_trades_step
    \/ execute_trades_return
SpecFlags == InitG /\ [][NextG]_vars

InitS == TradeIdle /\ InitSignals /\ FrvpIdle /\ OthersIdle
NextS ==
    \/ find_entry_points
    \/ find_exit_points
SpecSignals == InitS /\ [][NextS]_vars

InitF == TradeIdle /\ SignalsIdle /\ FrvpIdle /\ OthersIdle
NextF ==
    \/ analyze
    \/ download_raises
    \/ download_empty
    \/ download_bars
    \/ set_rolling_window
    \/ invalid_interval
    \/ volume_profile_step
    \/ show_results
    \/ analyze_return
SpecFrvp == InitF /\ [][NextF]_vars

InitR == TradeIdle /\ SignalsIdle /\ FrvpIdle /\ InitRsi /\ CrossIdle /\ MarketIdle /\ ProfileIdle
NextR == calculate_rsi
SpecRsi == InitR /\ [][NextR]_vars

InitC == TradeIdle /\ SignalsIdle /\ FrvpIdle /\ RsiIdle /\ InitCross /\ MarketIdle /\ ProfileIdle
NextC == show_results_macd
SpecCross == InitC /\ [][NextC]_vars

InitM == TradeIdle /\ SignalsIdle /\ FrvpIdle /\ OthersIdle
NextM ==
    \/ on_fetch_data
    \/ on_fetch_data_failed
    \/ on_plot_volume
    \/ on_plot_market
SpecMarket == InitM /\ [][NextM]_vars

InitV ==
    /\ TradeIdle /\ SignalsIdle /\ FrvpIdle
    /\ RsiIdle /\ CrossIdle /\ MarketIdle /\ InitProfile
NextV == calculate_volume_profile_return
SpecProfile == InitV /\ [][NextV]_vars

\* ================================================================ claims
BuyActions == {"buy (MACD cross)", "buy (RSI)", "buy (Bollinger Bands)",
               "buy (OBV)", "buy (ADX)"}
IsBuy(a) == a \in BuyActions
Actions == BuyActions \cup {"sell", "hold"}
Fires(row) == \E r \in RuleSet : row[r]
Positions(t) == [i \in 1..Len(t) |-> i]

\* C1: in the action column, at every moment of the run, two Buy cells always
\* have a Sell strictly between them, and every Sell has an earlier Buy with
\* no other Sell in between (so the first cell that is not Hold is a Buy).
C1_NoPyramidingNoSellWhileFlat ==
    \A j \in 1..Len(trades) :
        /\ IsBuy(trades[j]) =>
              \A i \in 1..(j - 1) :
                  IsBuy(trades[i]) => \E k \in (i + 1)..(j - 1) : trades[k] = "sell"
        /\ trades[j] = "sell" =>
              \E i \in 1..(j - 1) :
                  /\ IsBuy(trades[i])
                  /\ \A k \in (i + 1)..(j - 1) : trades[k] # "sell"

\* C1 witness: a finished run that bought, held through a bar whose entry
\* rules fired, and sold.
C1_Witness ==
    /\ pc = "display_results"
    /\ Len(trades) = 3
    /\ IsBuy(trades[1])
    /\ trades[2] = "hold" /\ Fires(entry_points[2])
    /\ trades[3] = "sell"

\* C2: the summary's buy list is, in order, the timestamps of the bars
\* whose action is a Buy(reason), its buy count their number, and its sell
\* list the timestamps of the bars whose action is Sell.
C2_SummaryCountsBuysAndSells ==
    pc = "plot_data" =>
        /\ buy_signals = SelectSeq(Positions(trades), LAMBDA i : IsBuy(trades[i]))
        /\ sell_signals = SelectSeq(Positions(trades), LAMBDA i : trades[i] = "sell")

\* the first rule, in the order MACD cross, RSI, Bollinger, OBV, ADX, that fires
FirstFired(e) ==
    Rules[CHOOSE k \in 1..Len(Rules) :
              e[Rules[k]] /\ \A j \in 1..(k - 1) : ~e[Rules[j]]]
ReasonLabel ==
    [r \in RuleSet |->
        CASE r = "MACD_cross" -> "buy (MACD cross)"
          [] r = "RSI" -> "buy (RSI)"
          [] r = "BB" -> "buy (Bollinger Bands)"
          [] r = "OBV" -> "buy (OBV)"
          [] r = "ADX" -> "buy (ADX)"]

\* C3: a bar met while Flat gets, whatever its exit flags, Buy labelled with
\* the first entry rule that fired in the order MACD cross, RSI, Bollinger,
\* OBV, ADX and the simulator is then InPosition, or, when no entry rule
\* fired, Hold and the simulator stays Flat.
C3_FlatBar ==
    [][(pc = "execute_trades" /\ index <= Len(data) /\ ~in_trade) =>
          IF Fires(entry_points[index])
          THEN /\ trades'[index] = ReasonLabel[FirstFired(entry_points[index])]
               /\ in_trade'
          ELSE /\ trades'[index] = "hold"
               /\ ~in_trade']_vars

\* C3 witness: a bar bought for RSI although Bollinger fired too and an exit
\* rule fired on the same bar.
C3_Witness ==
    \E i \in 1..Len(trades) :
        /\ trades[i] = "buy (RSI)"
        /\ entry_points[i]["BB"]
        /\ Fires(exit_points[i])

\* C4: a bar met while InPosition gets, whatever its entry flags, Sell when
\* an exit rule fired and the simulator is then Flat, or Hold when none fired
\* and the simulator stays InPosition; a Buy follows a Sell on a later bar
\* only.
C4_InPositionBar ==
    [][(pc = "execute_trades" /\ index <= Len(data) /\ in_trade) =>
          IF Fires(exit_points[index])
          THEN /\ trades'[index] = "sell"
               /\ ~in_trade'
          ELSE /\ trades'[index] = "hold"
               /\ in_trade']_vars

\* C4 witness: a bar sold although its entry rules fired, and the next bar
\* bought.
C4_Witness ==
    \E i \in 1..(Len(trades) - 1) :
        /\ trades[i] = "sell"
        /\ Fires(entry_points[i])
        /\ IsBuy(trades[i + 1])

\* C5: when execute_trades returns, the action column has one action for
\* each bar of the series and nothing else (none for no bar), and a position
\* open after the last bar is left open: the last bar is a Sell only when one
\* of its exit rules fired.
C5_OneActionPerBar ==
    pc = "display_results" =>
        /\ Len(trades) = Len(data)
        /\ \A i \in 1..Len(trades) : trades[i] \in Actions
        /\ data = <<>> => trades = <<>>
        /\ in_trade =>
              \E i \in 1..Len(trades) :
                  /\ IsBuy(trades[i])
                  /\ \A k \in (i + 1)..Len(trades) : trades[k] = "hold"
        /\ (trades # <<>> /\ trades[Len(trades)] = "sell") =>
              Fires(exit_points[Len(trades)])

\* C5 witness: execute_trades returned from a series of no bar.
C5_Witness ==
    /\ pc = "display_results"
    /\ data = <<>>
    /\ trades = <<>>

\* the day count of a window over an interval, never less than one bar
bars_for(days, interval) ==
    Max(1, (days * 1440) \div interval_duration_minutes[interval])

\* C6: every window the analysis computes for an interval of the mapping is
\* max(1, floor(days * 1440 / minutes per bar)): the one-day rolling window
\* and the 50, 200, 20, 12, 26 and 9 day windows.
C6_WindowIsAtLeastOneBar ==
    /\ \A w \in rolling_window : w = bars_for(1, interval_selected)
    /\ \A w \in windows :
          /\ w.ma50 = bars_for(50, interval_selected)
          /\ w.ma200 = bars_for(200, interval_selected)
          /\ w.ma20 = bars_for(20, interval_selected)
          /\ w.ema12 = bars_for(12, interval_selected)
          /\ w.ema26 = bars_for(26, interval_selected)
          /\ w.signal = bars_for(9, interval_selected)

\* C7: a run that ends with the invalid-interval error has made no download.
C7_InvalidIntervalBeforeFetch ==
    (fpc = "return" /\ fresult = "Invalid interval selected.") => downloads = 0

\* C8: from the second bar on, the MACD-cross entry flag of a bar is true
\* exactly when the previous bar has MACD <= MACD_signal and the bar has
\* MACD > MACD_signal.
C8_EntryCrossFromAtOrBelow ==
    spc \in {"find_exit_points", "done"} =>
        \A i \in 2..Len(MACD) :
            entry_MACD_cross[i] <=>
                (le(MACD[i - 1], MACD_signal[i - 1]) /\ gt(MACD[i], MACD_signal[i]))

\* C9: the point of control of a series with volume data is a close price
\* whose volume, summed over all bars closing at that price, is the largest.
C9_PocIsLargestBucket ==
    (Len(profile) = 3 /\ has_volume(historical_data) # {}) =>
        \A poc \in profile[1] :
            \A c \in DOMAIN volume_profile(historical_data) :
                volume_profile(historical_data)[c]
                    <= volume_profile(historical_data)[poc]

NoVolumeData(d) ==
    d # <<>> /\ \A i \in 1..Len(d) : d[i].Volume = NaN \/ d[i].Volume = Num(0)
Failed(p) == p = <<None, None, None>>

\* C10: the volume profile of a series is a failure exactly when the series
\* has no bar or when every volume is absent or zero, the failure of a series
\* without volume differs from the one of the empty series, and any other
\* series gets a poc, a vah and a val.
C10_FailureExactlyWhenEmptyOrNoVolume ==
    Len(profile) = 3 =>
        /\ Failed(profile) <=>
              (historical_data = <<>> \/ NoVolumeData(historical_data))
        /\ NoVolumeData(historical_data) =>
              profile # calculate_volume_profile(<<>>)
        /\ ~Failed(profile) => \A k \in 1..3 : profile[k] # None


Is(x, v) == \E f \in x : f.den # 0 /\ f.num = v * f.den

\* C11: after calculate_rsi no bar's RSI is undefined, and every bar whose
\* trailing-window average loss is zero, its average gain positive or not,
\* has RSI 50.
C11_ZeroLossIsFifty ==
    rpc = "done" =>
        \A i \in 1..Len(RSI) :
            /\ RSI[i] # NaN
            /\ IsZero(avg_loss(close_col, rsi_interval)[i]) => Is(RSI[i], 50)

\* C11 as amended: no bar's RSI is undefined; a bar whose window is not full
\* has RSI 50; a bar whose average loss is zero has RSI 50 when its average
\* gain is zero too and RSI 100 when its average gain is positive.
C11_ZeroLossIsFiftyOrHundred ==
    rpc = "done" =>
        \A i \in 1..Len(RSI) :
            /\ RSI[i] # NaN
            /\ avg_loss(close_col, rsi_interval)[i] = NaN => Is(RSI[i], 50)
            /\ IsZero(avg_loss(close_col, rsi_interval)[i]) =>
                  IF IsZero(avg_gain(close_col, rsi_interval)[i])
                  THEN Is(RSI[i], 50)
                  ELSE Is(RSI[i], 100)

\* C11 witness: a computed column with a bar of zero average loss and
\* positive average gain, another of zero average loss and zero average gain,
\* and a first bar whose window is not full.
C11_Witness ==
    /\ rpc = "done"
    /\ \E i, j \in 2..Len(RSI) :
          /\ IsZero(avg_loss(close_col, rsi_interval)[i])
          /\ ~IsZero(avg_gain(close_col, rsi_interval)[i])
          /\ Is(RSI[i], 100)
          /\ IsZero(avg_loss(close_col, rsi_interval)[j])
          /\ IsZero(avg_gain(close_col, rsi_interval)[j])
          /\ Is(RSI[j], 50)
    /\ avg_loss(close_col, rsi_interval)[1] = NaN


Last(col) == col[Len(col)]
Previous(col) == col[Len(col) - 1]
CrossedUp == Last(macd_col) > Last(signal_col) /\ Previous(macd_col) <= Previous(signal_col)
CrossedDown == Last(macd_col) < Last(signal_col) /\ Previous(macd_col) >= Previous(signal_col)

\* C12: whenever the MACD snapshot is requested for a series of at least one
\* bar, the classification is one of bullish, bearish and no crossover;
\* with a previous bar, it is bullish exactly when MACD is above the signal
\* line on the last bar and at or below it on the previous one, bearish
\* exactly when it is below on the last bar and at or above on the previous
\* one, and no crossover otherwise.
C12_OneOfThreeClasses ==
    (cpc = "done" /\ macd_check) =>
        /\ macd_analysis \in {Bullish, Bearish, NoCrossover}
        /\ Len(macd_col) >= 2 =>
              /\ macd_analysis = Bullish <=> CrossedUp
              /\ macd_analysis = Bearish <=> CrossedDown

\* C12 as amended: for a series of at least two bars the classification is
\* one of the three, bullish exactly when MACD crossed up, bearish exactly
\* when it crossed down, never both; for a series of one bar it is
\* "Insufficient data to analyze MACD crossover."
C12_ThreeClassesFromTwoBars ==
    (cpc = "done" /\ macd_check) =>
        IF Len(macd_col) >= 2
        THEN /\ macd_analysis \in {Bullish, Bearish, NoCrossover}
             /\ macd_analysis = Bullish <=> CrossedUp
             /\ macd_analysis = Bearish <=> CrossedDown
             /\ ~(CrossedUp /\ CrossedDown)
        ELSE macd_analysis = Insufficient

\* C12 witness: a bullish crossover from MACD equal to the signal line.
C12_Witness ==
    /\ cpc = "done"
    /\ macd_check
    /\ Len(macd_col) >= 2
    /\ Previous(macd_col) = Previous(signal_col)
    /\ macd_analysis = Bullish


\* C13: whatever a plot request draws is the volume or market profile of the
\* frame the most recent fetch returned; after a most recent fetch that
\* failed a plot request draws nothing.
C13_PlotIsOfLastFetch ==
    \A p \in drawn :
        \E d \in g_data :
            \/ p = <<"Volume Profile", volume_profile(d)>>
            \/ p = <<"Market Profile", market_profile(d)>>


\* C14: execute_trades never writes 'wait'.  Whatever combination of the five
\* entry flags a bar carries, every cell written so far is a sell, a hold or
\* one of the five labelled buys, the cell of the first bar (always handled
\* flat) is a hold or a labelled buy, and the chain of labels gives a labelled
\* buy for every row in which some flag is set.
C14_NeverWait ==
    /\ \A i \in 1..Len(trades) : trades[i] # "wait"
    /\ \A i \in 1..(index - 1) : trades[i] \in Actions
    /\ index > 1 => trades[1] \in BuyActions \cup {"hold"}
    /\ \A i \in 1..Len(entry_points) :
          any(entry_points[i]) => buy_label(entry_points[i]) \in BuyActions

\* C14 witness: a bar whose only entry flag is the last of the chain, ADX, was
\* handled flat and labelled 'buy (ADX)', and a bar with every flag but the
\* first was labelled by the first flag it has set.
C14_Witness ==
    /\ pc = "display_results"
    /\ Len(trades) = 2
    /\ entry_points[1] = Row({"ADX"})
    /\ trades[1] = "buy (ADX)"
    /\ trades[2] = "sell"
    /\ \E e \in AllRows \ EntryRows : entry_points[2] = e


\* a series the claim speaks of: some bar, every bar with low <= close <= high
\* and a volume
WellFormed(d) ==
    /\ d # <<>>
    /\ \A i \in 1..Len(d) :
          /\ d[i].Volume # NaN
          /\ d[i].Low <= d[i].Close
          /\ d[i].Close <= d[i].High
MaxVolumeRows(d) ==
    {i \in has_volume(d) : \A j \in has_volume(d) : vol(d, j) <= vol(d, i)}

\* C15: for a series of at least one bar whose bars have low <= close <= high
\* and a volume, calculate_volume_profile returns three values with
\* val <= poc <= vah, and the first bar of largest volume, whose close is poc,
\* is one of the ten bars of largest volume that vah and val are taken over.
C15_ValPocVah ==
    (vpc = "done" /\ WellFormed(vp_data)) =>
        /\ idxmax(vp_data) \in nlargest(vp_data, top_n)
        /\ \E poc \in vp_result[1] : \E vah \in vp_result[2] :
              \E val \in vp_result[3] : val <= poc /\ poc <= vah

\* C15 witness: a series of more bars than nlargest keeps, all of them tied
\* for the largest volume, the last of them dearer than the ten that are
\* kept: the result is (1, 1, 1).
C15_Witness ==
    /\ vpc = "done"
    /\ WellFormed(vp_data)
    /\ Len(vp_data) > top_n
    /\ MaxVolumeRows(vp_data) = 1..Len(vp_data)
    /\ vp_data[Len(vp_data)].Close = 2
    /\ vp_result = <<Num(1), Num(1), Num(1)>>

====
